---- MODULE Spec2Model ----
(***************************************************************************)
(* Model of proc_qq/src/entities.rs: the file-backed SessionStore, the     *)
(* ImageElement accessors, and the login engine that consumes the          *)
(* Authentication selection and the SessionStore.                          *)
(***************************************************************************)
EXTENDS Integers, Sequences, FiniteSets, TLC

\* ------------------------------------------------------------------ bounds
MaxLen == 2          \* longest session blob
MaxByte == 2         \* byte values are 1..MaxByte
MaxDim == 2          \* width / height / size range over 1..MaxDim
MaxDigest == 2       \* md5 digests range over 1..MaxDigest
MaxChallenges == 2   \* challenges the server raises in one login

\* ------------------------------------------------------------------ state
VARIABLES
    file,      \* the path of FileSessionStore: [exists, bytes]
    last,      \* the store call that returned last (sequential use)
    prev,      \* the store call that returned before it
    pc,        \* concurrent use: position of each task inside its call
    arg,       \* concurrent use: the data a saving task is writing
    res,       \* concurrent use: what each task's last call returned
    saved,     \* concurrent use: blobs handed to save_session so far
    elem,      \* the ImageElement under inspection
    built,     \* how elem was built: [flash, kind, image]
    out,       \* the accessor applied last and what it returned
    before,    \* the accessor applied before it and what it returned
    est,       \* engine state
    sel,       \* selection being executed
    sel0,      \* selection the attempt was started with
    stored0,   \* whether the store held a session when the attempt started
    connLog,   \* calls made on the connection handle, in order
    storeLog,  \* calls made on the SessionStore, in order
    pending,   \* challenges raised and not yet resolved
    via,       \* how Authenticated was reached
    cbUsed,    \* the decision callback has been invoked
    cause,     \* why the attempt failed or was abandoned
    saveRes    \* result of SessionStore.save, if it was called

storeVars == <<file, last, prev>>
concVars == <<pc, arg, res, saved>>
imgVars == <<elem, built, out, before>>
engVars == <<est, sel, sel0, stored0, connLog, storeLog, pending, via, cbUsed, cause, saveRes>>
vars == <<file, last, prev, pc, arg, res, saved, elem, built, out, before,
          est, sel, sel0, stored0, connLog, storeLog, pending, via, cbUsed, cause, saveRes>>

\* ------------------------------------------------------------ byte blobs
RECURSIVE SeqsOfLen(_)
SeqsOfLen(n) ==
    IF n = 0 THEN {<<>>}
    ELSE {Append(s, b) : s \in SeqsOfLen(n - 1), b \in 1..MaxByte}

Blobs == UNION {SeqsOfLen(n) : n \in 0..MaxLen}

\* ------------------------------------------------------------ file system
NoFile == [exists |-> FALSE, bytes |-> <<>>]

FileOf(b) == [exists |-> TRUE, bytes |-> b]

Files == {NoFile} \cup {FileOf(b) : b \in Blobs}

\* Path::exists
path_exists(f) == f.exists

\* contents of the path after a run of tokio::fs::write in which the open
\* succeeded and n bytes of data were written
fs_write_append(old, data, n) ==
    FileOf((IF old.exists THEN old.bytes ELSE <<>>) \o SubSeq(data, 1, n))

fs_write(old, data, n) == FileOf(SubSeq(data, 1, n))

\* tokio::fs::remove_file: the path afterwards and the io result.  Deleting
\* a missing path is an error; deleting an existing one may be refused.
fs_remove_file(f) ==
    IF f.exists
    THEN {[file |-> NoFile, io |-> "Ok"], [file |-> f, io |-> "Err"]}
    ELSE {[file |-> f, io |-> "Err"]}

\* ------------------------------------------------------------ store calls
NoCall == [op |-> "none", data |-> <<>>, ret |-> "Ok", some |-> FALSE,
           bytes |-> <<>>, io |-> "Ok"]

Call(op, data, ret, some, bytes, io) ==
    [op |-> op, data |-> data, ret |-> ret, some |-> some, bytes |-> bytes, io |-> io]

\* every way save_session(data) can end on file f: the open fails, a write
\* fails after n < Len(data) bytes, or all of data is written
save_session_outcomes(f, data) ==
    {[file |-> f, ret |-> "Err"]}
    \cup {[file |-> fs_write(f, data, n), ret |-> "Err"] : n \in 0..(Len(data) - 1)}
    \cup {[file |-> fs_write(f, data, Len(data)), ret |-> "Ok"]}

\* load_session with nothing running in between its check and its read
load_session_result(f) ==
    IF path_exists(f)
    THEN Call("load_session", <<>>, "Ok", TRUE, f.bytes, "Ok")
    ELSE Call("load_session", <<>>, "Ok", FALSE, <<>>, "Ok")

\* what remove_session returns given the io result of remove_file
remove_ret_propagate(io) == io

remove_ret(io) == "Ok"

save_session(data) ==
    /\ \E o \in save_session_outcomes(file, data) :
          /\ file' = o.file
          /\ last' = Call("save_session", data, o.ret, FALSE, <<>>, o.ret)
    /\ prev' = last
    /\ UNCHANGED <<concVars, imgVars, engVars>>

load_session ==
    /\ last' = load_session_result(file)
    /\ prev' = last
    /\ UNCHANGED <<file, concVars, imgVars, engVars>>

remove_session ==
    /\ \E o \in fs_remove_file(file) :
          /\ file' = o.file
          /\ last' = Call("remove_session", <<>>, remove_ret(o.io), FALSE, <<>>, o.io)
    /\ prev' = last
    /\ UNCHANGED <<concVars, imgVars, engVars>>

\* ---------------------------------------------------- idle values
Tasks == {"loader", "mutator"}
IdleConc ==
    /\ pc = [t \in Tasks |-> "idle"]
    /\ arg = <<>>
    /\ res = [t \in Tasks |-> NoCall]
    /\ saved = {}

\* an element that has been consumed by an into_* call
Moved == [tag |-> "moved"]

NoBuilt == [flash |-> FALSE, kind |-> "none"]

NoOut == [fn |-> "none", res |-> FALSE]

IdleImg ==
    /\ elem = Moved
    /\ built = NoBuilt
    /\ out = NoOut
    /\ before = NoOut

IdleEng ==
    /\ est = "Off"
    /\ sel = "none"
    /\ sel0 = "none"
    /\ stored0 = FALSE
    /\ connLog = <<>>
    /\ storeLog = <<>>
    /\ pending = 0
    /\ via = "none"
    /\ cbUsed = FALSE
    /\ cause = "none"
    /\ saveRes = "none"

IdleStore ==
    /\ file = NoFile
    /\ last = NoCall
    /\ prev = NoCall

\* ------------------------------------- FileSessionStore, calls in sequence
InitStore ==
    /\ file \in Files
    /\ last = NoCall
    /\ prev = NoCall
    /\ IdleConc
    /\ IdleImg
    /\ IdleEng

NextStore ==
    \/ \E data \in Blobs : save_session(data)
    \/ load_session
    \/ remove_session

SpecStore == InitStore /\ [][NextStore]_vars

C2_LoadAfterRemove ==
    (last.op = "load_session" /\ prev.op = "remove_session")
        => (last.ret = "Ok" /\ ~last.some)

\* C3: remove_session returns Ok in every store state, also when the
\* underlying deletion reports an error.
C3_RemoveOk ==
    last.op = "remove_session" => last.ret = "Ok"

\* a second remove in a row whose deletion reported an error
C3_Witness ==
    /\ last.op = "remove_session"
    /\ prev.op = "remove_session"
    /\ last.io = "Err"
    /\ last.ret = "Ok"

\* --------------------- FileSessionStore, a load racing a save or a remove
\* The loader task runs load_session while the mutator task runs
\* save_session or remove_session; a call proceeds one file operation at a
\* time, so the other task's operations fall between them.
Returned(t, call) ==
    /\ res' = [res EXCEPT ![t] = call]
    /\ pc' = [pc EXCEPT ![t] = "idle"]

\* load_session, the existence check
load_check ==
    /\ pc["loader"] = "idle"
    /\ IF path_exists(file)
       THEN /\ pc' = [pc EXCEPT !["loader"] = "read"]
            /\ res' = res
       ELSE Returned("loader", Call("load_session", <<>>, "Ok", FALSE, <<>>, "Ok"))
    /\ UNCHANGED <<file, arg, saved, last, prev, imgVars, engVars>>

\* load_session, tokio::fs::read(..).await? after the check said "exists"
load_read ==
    /\ pc["loader"] = "read"
    /\ IF file.exists
       THEN Returned("loader", Call("load_session", <<>>, "Ok", TRUE, file.bytes, "Ok"))
       ELSE Returned("loader", Call("load_session", <<>>, "Err", FALSE, <<>>, "Err"))
    /\ UNCHANGED <<file, arg, saved, last, prev, imgVars, engVars>>

\* save_session(data) is called
save_begin(data) ==
    /\ pc["mutator"] = "idle"
    /\ pc' = [pc EXCEPT !["mutator"] = "open"]
    /\ arg' = data
    /\ saved' = saved \cup {data}
    /\ UNCHANGED <<file, res, last, prev, imgVars, engVars>>

\* tokio::fs::write opens the path with create + truncate
save_open ==
    /\ pc["mutator"] = "open"
    /\ \/ /\ file' = fs_write(file, arg, 0)
          /\ pc' = [pc EXCEPT !["mutator"] = "write"]
          /\ res' = res
       \/ /\ file' = file
          /\ Returned("mutator", Call("save_session", arg, "Err", FALSE, <<>>, "Err"))
    /\ UNCHANGED <<arg, saved, last, prev, imgVars, engVars>>

\* write_all: one write call stores some more bytes of data, or fails
save_write ==
    /\ pc["mutator"] = "write"
    /\ Len(file.bytes) < Len(arg)
    /\ \/ /\ \E n \in (Len(file.bytes) + 1)..Len(arg) : file' = fs_write(file, arg, n)
          /\ UNCHANGED <<pc, res>>
       \/ /\ file' = file
          /\ Returned("mutator", Call("save_session", arg, "Err", FALSE, <<>>, "Err"))
    /\ UNCHANGED <<arg, saved, last, prev, imgVars, engVars>>

\* all of data is written: save_session returns Ok(())
save_done ==
    /\ pc["mutator"] = "write"
    /\ Len(file.bytes) = Len(arg)
    /\ Returned("mutator", Call("save_session", arg, "Ok", FALSE, <<>>, "Ok"))
    /\ UNCHANGED <<file, arg, saved, last, prev, imgVars, engVars>>

\* remove_session run by the mutator task
remove_step ==
    /\ pc["mutator"] = "idle"
    /\ \E o \in fs_remove_file(file) :
          /\ file' = o.file
          /\ Returned("mutator", Call("remove_session", <<>>, remove_ret(o.io), FALSE, <<>>, o.io))
    /\ UNCHANGED <<arg, saved, last, prev, imgVars, engVars>>

InitConc ==
    /\ file \in Files
    /\ last = NoCall
    /\ prev = NoCall
    /\ pc = [t \in Tasks |-> "idle"]
    /\ arg = <<>>
    /\ res = [t \in Tasks |-> NoCall]
    /\ saved = IF file.exists THEN {file.bytes} ELSE {}
    /\ IdleImg
    /\ IdleEng

NextConc ==
    \/ load_check
    \/ load_read
    \/ \E data \in Blobs : save_begin(data)
    \/ save_open
    \/ save_write
    \/ save_done
    \/ remove_step

SpecConc == InitConc /\ [][NextConc]_vars

\* C4: load_session never returns an error for a missing target, also when
\* remove_session removes it between the existence check and the read.
C4_LoadNeverErr ==
    res["loader"].op = "load_session" => res["loader"].ret = "Ok"

\* C5: a load that interleaves with a save returns None or a complete blob
\* that was saved, never an empty, truncated or mixed one.
C5_WholeFile ==
    (res["loader"].op = "load_session" /\ res["loader"].some)
        => res["loader"].bytes \in saved

\* ------------------------------------------------------------ ImageElement
\* the metadata of a ricq GroupImage / FriendImage
Images ==
    [width : 1..MaxDim, height : 1..MaxDim, size : 1..MaxDim, md5 : 1..MaxDigest]

\* enum ImageElement and the FlashImage it wraps: a tag and the payload
GroupImage(image) == [tag |-> "GroupImage", image |-> image]

FriendImage(image) == [tag |-> "FriendImage", image |-> image]

FlashImage(inner) == [tag |-> "FlashImage", image |-> inner]

\* the element built from image g of the given kind, flash-wrapped or not
Build(b) ==
    LET inner == IF b.kind = "group" THEN GroupImage(b.image) ELSE FriendImage(b.image)
    IN  IF b.flash THEN FlashImage(inner) ELSE inner

Ok(v) == [ok |-> TRUE, val |-> v]

Mismatching == [ok |-> FALSE, val |-> "mismatching"]

\* GroupImage::url and FriendImage::url of ricq_core: a link on the host of
\* the image's kind, derived from its digest
GroupImage_url(image) == <<"gchat.qpic.cn", image.md5>>

FriendImage_url(image) == <<"c2cpicdw.qpic.cn", image.md5>>

\* macro image_element_get!(name, ty)
image_element_get_plain_only(e, name) ==
    CASE e.tag = "GroupImage" -> e.image[name]
      [] e.tag = "FriendImage" -> e.image[name]
      [] e.tag = "FlashImage" -> 0

image_element_get(e, name) ==
    CASE e.tag = "GroupImage" -> e.image[name]
      [] e.tag = "FriendImage" -> e.image[name]
      [] e.tag = "FlashImage" ->
            CASE e.image.tag = "FriendImage" -> e.image.image[name]
              [] e.image.tag = "GroupImage" -> e.image.image[name]

width(e) == image_element_get(e, "width")

height(e) == image_element_get(e, "height")

size(e) == image_element_get(e, "size")

url(e) ==
    CASE e.tag = "GroupImage" -> GroupImage_url(e.image)
      [] e.tag = "FriendImage" -> FriendImage_url(e.image)
      [] e.tag = "FlashImage" ->
            CASE e.image.tag = "FriendImage" -> FriendImage_url(e.image.image)
              [] e.image.tag = "GroupImage" -> GroupImage_url(e.image.image)

md5(e) ==
    CASE e.tag = "GroupImage" -> e.image.md5
      [] e.tag = "FriendImage" -> e.image.md5
      [] e.tag = "FlashImage" ->
            CASE e.image.tag = "FriendImage" -> e.image.image.md5
              [] e.image.tag = "GroupImage" -> e.image.image.md5

is_flash(e) == e.tag = "FlashImage"

case_flash(e) == IF e.tag = "FlashImage" THEN Ok(e.image) ELSE Mismatching

into_flash(e) == IF e.tag = "FlashImage" THEN Ok(e.image) ELSE Mismatching

is_group_plain_only(e) == e.tag = "GroupImage"

is_group(e) ==
    CASE e.tag = "GroupImage" -> TRUE
      [] e.tag = "FriendImage" -> FALSE
      [] e.tag = "FlashImage" ->
            CASE e.image.tag = "FriendImage" -> FALSE
              [] e.image.tag = "GroupImage" -> TRUE

case_group(e) ==
    CASE e.tag = "GroupImage" -> Ok(e.image)
      [] e.tag = "FriendImage" -> Mismatching
      [] e.tag = "FlashImage" ->
            CASE e.image.tag = "FriendImage" -> Mismatching
              [] e.image.tag = "GroupImage" -> Ok(e.image.image)

into_group(e) ==
    CASE e.tag = "GroupImage" -> Ok(e.image)
      [] e.tag = "FriendImage" -> Mismatching
      [] e.tag = "FlashImage" ->
            CASE e.image.tag = "FriendImage" -> Mismatching
              [] e.image.tag = "GroupImage" -> Ok(e.image.image)

is_friend(e) ==
    CASE e.tag = "GroupImage" -> FALSE
      [] e.tag = "FriendImage" -> TRUE
      [] e.tag = "FlashImage" ->
            CASE e.image.tag = "FriendImage" -> TRUE
              [] e.image.tag = "GroupImage" -> FALSE

case_friend(e) ==
    CASE e.tag = "GroupImage" -> Mismatching
      [] e.tag = "FriendImage" -> Ok(e.image)
      [] e.tag = "FlashImage" ->
            CASE e.image.tag = "FriendImage" -> Ok(e.image.image)
              [] e.image.tag = "GroupImage" -> Mismatching

into_friend_any_flash(e) ==
    CASE e.tag = "GroupImage" -> Mismatching
      [] e.tag = "FriendImage" -> Ok(e.image)
      [] e.tag = "FlashImage" -> Ok(e.image.image)

into_friend(e) ==
    CASE e.tag = "GroupImage" -> Mismatching
      [] e.tag = "FriendImage" -> Ok(e.image)
      [] e.tag = "FlashImage" ->
            CASE e.image.tag = "FriendImage" -> Ok(e.image.image)
              [] e.image.tag = "GroupImage" -> Mismatching

\* a &self accessor is applied: the element stays
Borrowed(fn, r) ==
    /\ elem.tag # "moved"
    /\ out' = [fn |-> fn, res |-> r]
    /\ before' = out
    /\ UNCHANGED <<elem, built, storeVars, concVars, engVars>>

\* a self accessor is applied: the element is consumed by the call
Consumed(fn, r) ==
    /\ elem.tag # "moved"
    /\ out' = [fn |-> fn, res |-> r]
    /\ before' = out
    /\ elem' = Moved
    /\ UNCHANGED <<built, storeVars, concVars, engVars>>

CallWidth == Borrowed("width", width(elem))

CallHeight == Borrowed("height", height(elem))

CallSize == Borrowed("size", size(elem))

CallUrl == Borrowed("url", url(elem))

CallMd5 == Borrowed("md5", md5(elem))

CallIsFlash == Borrowed("is_flash", is_flash(elem))

CallCaseFlash == Borrowed("case_flash", case_flash(elem))

CallIntoFlash == Consumed("into_flash", into_flash(elem))

CallIsGroup == Borrowed("is_group", is_group(elem))

CallCaseGroup == Borrowed("case_group", case_group(elem))

CallIntoGroup == Consumed("into_group", into_group(elem))

CallIsFriend == Borrowed("is_friend", is_friend(elem))

CallCaseFriend == Borrowed("case_friend", case_friend(elem))

CallIntoFriend == Consumed("into_friend", into_friend(elem))

InitImage ==
    /\ built \in [flash : BOOLEAN, kind : {"group", "friend"}, image : Images]
    /\ elem = Build(built)
    /\ out = NoOut
    /\ before = NoOut
    /\ IdleStore
    /\ IdleConc
    /\ IdleEng

NextImage ==
    \/ CallWidth
    \/ CallHeight
    \/ CallSize
    \/ CallUrl
    \/ CallMd5
    \/ CallIsFlash
    \/ CallCaseFlash
    \/ CallIntoFlash
    \/ CallIsGroup
    \/ CallCaseGroup
    \/ CallIntoGroup
    \/ CallIsFriend
    \/ CallCaseFriend
    \/ CallIntoFriend

SpecImage == InitImage /\ [][NextImage]_vars

\* the shape a narrowing accessor asks for
ShapeOf(fn) ==
    CASE fn \in {"case_flash", "into_flash"} -> "flash"
      [] fn \in {"case_group", "into_group"} -> "group"
      [] fn \in {"case_friend", "into_friend"} -> "friend"

Narrowings ==
    {"case_flash", "into_flash", "case_group", "into_group", "case_friend", "into_friend"}

\* the element is, or flash-wraps, an image of the shape
ShapeMatches(b, shape) ==
    IF shape = "flash" THEN b.flash ELSE b.kind = shape

\* what a matching narrowing hands out, in terms of how the element was built
Narrowed(b, shape) ==
    IF shape = "flash"
    THEN [tag |-> IF b.kind = "group" THEN "GroupImage" ELSE "FriendImage",
          image |-> b.image]
    ELSE b.image

\* C6: a narrowing accessor returns Ok with the inner image the element was
\* built from when the requested shape matches, and the "mismatching" error
\* otherwise.
C6_Narrowing ==
    out.fn \in Narrowings =>
        IF ShapeMatches(built, ShapeOf(out.fn))
        THEN out.res.ok /\ out.res.val = Narrowed(built, ShapeOf(out.fn))
        ELSE ~out.res.ok /\ out.res.val = "mismatching"

\* group narrowing on a friend-backed element failed, and friend narrowing
\* on the same element had handed out its image
C6_Witness ==
    /\ out.fn = "into_group"
    /\ ~out.res.ok
    /\ built.kind = "friend"
    /\ before.fn = "case_friend"
    /\ before.res.ok
    /\ before.res.val = built.image

Getters == {"width", "height", "size", "url", "md5"}

\* the getter applied to an element
Get(fn, e) ==
    CASE fn = "width" -> width(e)
      [] fn = "height" -> height(e)
      [] fn = "size" -> size(e)
      [] fn = "url" -> url(e)
      [] fn = "md5" -> md5(e)

\* the value the inner image itself carries
Carried(fn, b) ==
    CASE fn = "url" ->
            IF b.kind = "group" THEN GroupImage_url(b.image) ELSE FriendImage_url(b.image)
      [] OTHER -> b.image[fn]

\* C7: width, height, size, url and md5 of a flash-wrapped image equal those
\* of the plain element holding the same image, and are values of the image
\* for every variant.
C7_FlashSameMetadata ==
    out.fn \in Getters =>
        /\ out.res = Carried(out.fn, built)
        /\ out.res = Get(out.fn, Build([built EXCEPT !.flash = FALSE]))

\* two getters were applied to a flash-wrapped image
C7_Witness ==
    /\ built.flash
    /\ out.fn = "url"
    /\ before.fn = "size"
    /\ before.res = MaxDim

ResultOf(fn) == IF out.fn = fn THEN out.res ELSE before.res

Applied(fn) == out.fn = fn \/ before.fn = fn

ShapeFns ==
    {[is |-> "is_flash", case |-> "case_flash", into |-> "into_flash"],
     [is |-> "is_group", case |-> "case_group", into |-> "into_group"],
     [is |-> "is_friend", case |-> "case_friend", into |-> "into_friend"]}

\* C10: exactly one of is_group and is_friend is true, each narrowing
\* succeeds exactly when its predicate is true, and the borrowing and the
\* consuming form agree.
C10_PredicatesAgree ==
    /\ (Applied("is_group") /\ Applied("is_friend"))
          => (ResultOf("is_group") # ResultOf("is_friend"))
    /\ \A s \in ShapeFns :
          /\ (Applied(s.is) /\ Applied(s.case)) => (ResultOf(s.case).ok = ResultOf(s.is))
          /\ (Applied(s.is) /\ Applied(s.into)) => (ResultOf(s.into).ok = ResultOf(s.is))
          /\ (Applied(s.case) /\ Applied(s.into)) => (ResultOf(s.case).ok = ResultOf(s.into).ok)

\* is_group said yes on a flash-wrapped element and into_group then succeeded
C10_Witness ==
    /\ built.flash
    /\ before.fn = "is_group"
    /\ before.res = TRUE
    /\ out.fn = "into_group"
    /\ out.res.ok

\* ------------------------------------------------------- the login engine
\* enum Authentication
Authentication ==
    {"QRCode", "UinPassword", "UinPasswordMd5", "CustomUinPassword",
     "CustomUinPasswordMd5", "CallBack", "Abandon"}

Terminal == {"Authenticated", "Failed", "Abandoned"}

\* the selections whose execution submits a login request to the connection
SubmitsEvenAbandon(s) == s # "CallBack"

Submits(s) == s \notin {"CallBack", "Abandon"}

\* the selections that first ask a caller-supplied credential source
AsksSupplier(s) == s \in {"CustomUinPassword", "CustomUinPasswordMd5"}

\* the connection call a selection's login request is
LoginCall(s) == IF s = "QRCode" THEN "login_qr" ELSE "login_credentials"

\* the engine state after SessionStore.save returned r
AfterSaveDowngrade(r) == IF r = "Err" THEN "Failed" ELSE "Authenticated"

AfterSave(r) == "Authenticated"

Ends(state, why) ==
    /\ est' = state
    /\ cause' = why

\* Idle: ask the store for a saved session
Load ==
    /\ est = "Idle"
    /\ storeLog' = Append(storeLog, "load")
    /\ est' = IF stored0 THEN "SessionResumeAttempt" ELSE "StrategyExecution"
    /\ UNCHANGED <<sel, sel0, stored0, connLog, pending, via, cbUsed, cause, saveRes,
                   storeVars, concVars, imgVars>>

\* SessionResumeAttempt: resume against the live connection
Resume ==
    /\ est = "SessionResumeAttempt"
    /\ connLog' = Append(connLog, "attempt_resume")
    /\ \/ /\ est' = "Authenticated"
          /\ via' = "resume"
       \/ /\ est' = "StrategyExecution"
          /\ via' = via
    /\ UNCHANGED <<sel, sel0, stored0, storeLog, pending, cbUsed, cause, saveRes,
                   storeVars, concVars, imgVars>>

\* StrategyExecution of Abandon
Abandon ==
    /\ est = "StrategyExecution"
    /\ ~Submits(sel)
    /\ sel # "CallBack"
    /\ Ends("Abandoned", "Abandon")
    /\ UNCHANGED <<sel, sel0, stored0, connLog, storeLog, pending, via, cbUsed, saveRes,
                   storeVars, concVars, imgVars>>

\* StrategyExecution of the decision callback: one re-evaluation
DecisionCallback ==
    /\ est = "StrategyExecution"
    /\ sel = "CallBack"
    /\ IF cbUsed
       THEN /\ Ends("Failed", "ProtocolViolation")
            /\ UNCHANGED <<sel, cbUsed>>
       ELSE /\ sel' \in Authentication
            /\ cbUsed' = TRUE
            /\ UNCHANGED <<est, cause>>
    /\ UNCHANGED <<sel0, stored0, connLog, storeLog, pending, via, saveRes,
                   storeVars, concVars, imgVars>>

\* StrategyExecution of a custom credential selection whose supplier fails
\* or whose wait is cancelled: nothing is submitted
SupplierFails ==
    /\ est = "StrategyExecution"
    /\ Submits(sel)
    /\ AsksSupplier(sel)
    /\ \/ Ends("Failed", "ResolverFailed")
       \/ Ends("Failed", "Cancelled")
       \/ Ends("Abandoned", "Cancelled")
    /\ UNCHANGED <<sel, sel0, stored0, connLog, storeLog, pending, via, cbUsed, saveRes,
                   storeVars, concVars, imgVars>>

\* StrategyExecution of QR / credentials: submit the request; the server
\* raises challenges, or the request fails
Submit ==
    /\ est = "StrategyExecution"
    /\ Submits(sel)
    /\ connLog' = Append(connLog, LoginCall(sel))
    /\ \/ /\ pending' \in 0..MaxChallenges
          /\ est' = "ChallengeLoop"
          /\ cause' = cause
       \/ /\ pending' = pending
          /\ Ends("Failed", "ChallengeFailed")
    /\ UNCHANGED <<sel, sel0, stored0, storeLog, via, cbUsed, saveRes,
                   storeVars, concVars, imgVars>>

\* ChallengeLoop: the resolver of the oldest challenge answers and the
\* answer is submitted
Resolve ==
    /\ est = "ChallengeLoop"
    /\ pending > 0
    /\ connLog' = Append(connLog, "submit")
    /\ \/ /\ pending' = pending - 1
          /\ UNCHANGED <<est, cause>>
       \/ /\ pending' = pending
          /\ Ends("Failed", "ChallengeFailed")
    /\ UNCHANGED <<sel, sel0, stored0, storeLog, via, cbUsed, saveRes,
                   storeVars, concVars, imgVars>>

\* ChallengeLoop: the resolver fails, or its wait is cancelled
ResolverFails ==
    /\ est = "ChallengeLoop"
    /\ pending > 0
    /\ \/ Ends("Failed", "ResolverFailed")
       \/ Ends("Failed", "Cancelled")
       \/ Ends("Abandoned", "Cancelled")
    /\ UNCHANGED <<sel, sel0, stored0, connLog, storeLog, pending, via, cbUsed, saveRes,
                   storeVars, concVars, imgVars>>

\* ChallengeLoop with nothing pending: the server confirms
Confirm ==
    /\ est = "ChallengeLoop"
    /\ pending = 0
    /\ est' = "Authenticated"
    /\ via' = "strategy"
    /\ UNCHANGED <<sel, sel0, stored0, connLog, storeLog, pending, cbUsed, cause, saveRes,
                   storeVars, concVars, imgVars>>

\* Authenticated by strategy execution: persist the new session
Save ==
    /\ est = "Authenticated"
    /\ via = "strategy"
    /\ saveRes = "none"
    /\ storeLog' = Append(storeLog, "save")
    /\ \E r \in {"Ok", "Err"} :
          /\ saveRes' = r
          /\ est' = AfterSave(r)
    /\ UNCHANGED <<sel, sel0, stored0, connLog, pending, via, cbUsed, cause,
                   storeVars, concVars, imgVars>>

InitEngine ==
    /\ est = "Idle"
    /\ sel \in Authentication
    /\ sel0 = sel
    /\ stored0 \in BOOLEAN
    /\ connLog = <<>>
    /\ storeLog = <<>>
    /\ pending = 0
    /\ via = "none"
    /\ cbUsed = FALSE
    /\ cause = "none"
    /\ saveRes = "none"
    /\ IdleStore
    /\ IdleConc
    /\ IdleImg

NextEngine ==
    \/ Load
    \/ Resume
    \/ Abandon
    \/ DecisionCallback
    \/ SupplierFails
    \/ Submit
    \/ Resolve
    \/ ResolverFails
    \/ Confirm
    \/ Save

SpecEngine == InitEngine /\ [][NextEngine]_vars

InLog(log, x) == \E i \in 1..Len(log) : log[i] = x

C9_SaveOnlyAuthenticated ==
    /\ InLog(storeLog, "save") => (est = "Authenticated" /\ via = "strategy")
    /\ est \in {"Failed", "Abandoned"} => (saveRes = "none" /\ ~InLog(storeLog, "save"))
    /\ saveRes = "Err" => est = "Authenticated"

\* a login after a failed resume whose save reported an error
C9_Witness ==
    /\ est = "Authenticated"
    /\ saveRes = "Err"
    /\ InLog(connLog, "attempt_resume")
    /\ InLog(connLog, "login_qr")

====
